---- MODULE Spec2Model ----
(***************************************************************************)
(* Model of streamlit_app.py: the colour table COLOR_LIST, the scan        *)
(* nearest_color_name, the top-5 ranking of the "Detect color" handler and *)
(* the script's control flow.  Streamlit re-executes the whole script on   *)
(* every widget interaction, so each action below is one interaction       *)
(* followed by one complete run of the script.                             *)
(***************************************************************************)
EXTENDS Integers, Sequences, FiniteSets

VARIABLES
    COLOR_LIST,     \* the module-level list (a mutable Python list)
    USE_CLICK,      \* whether streamlit_image_coordinates was imported
    uploaded_file,  \* <<>> for None, <<img>> for an uploaded image
    coords,         \* value of the click component: <<>> for None, <<x, y>>
    manual,         \* values of the two number_input widgets: <<>> or <<x, y>>
    button,         \* what st.button returned in the last run
    page,           \* what the last run of the script rendered
    requests        \* how many runs have called the matcher (counted to MaxRequests)

vars ==
    <<COLOR_LIST, USE_CLICK, uploaded_file, coords, manual, button, page, requests>>

-----------------------------------------------------------------------------
(* Bounds of the model *)

\* widest and tallest uploaded image
MaxW == 2
MaxH == 2
\* uploaded colour charts start at every Stride-th sample
Stride == 3
\* the count of served requests stops at MaxRequests
MaxRequests == 2
\* longest synthetic palette of SpecPal
MaxPal == 2

-----------------------------------------------------------------------------
(* Data *)

\* Python's None where a name is expected
None == "None"

\* float('inf'): larger than every squared distance (at most 3 * 255^2)
Inf == 2147483647

\* number of entries the handler keeps and of columns it creates
TopN == 5

ColorListLiteral ==
    << <<"Black", <<0, 0, 0>>>>,
       <<"White", <<255, 255, 255>>>>,
       <<"Red", <<255, 0, 0>>>>,
       <<"Lime", <<0, 255, 0>>>>,
       <<"Blue", <<0, 0, 255>>>>,
       <<"Yellow", <<255, 255, 0>>>>,
       <<"Cyan", <<0, 255, 255>>>>,
       <<"Magenta", <<255, 0, 255>>>>,
       <<"Silver", <<192, 192, 192>>>>,
       <<"Gray", <<128, 128, 128>>>>,
       <<"Maroon", <<128, 0, 0>>>>,
       <<"Olive", <<128, 128, 0>>>>,
       <<"Green", <<0, 128, 0>>>>,
       <<"Purple", <<128, 0, 128>>>>,
       <<"Teal", <<0, 128, 128>>>>,
       <<"Navy", <<0, 0, 128>>>>,
       <<"Orange", <<255, 165, 0>>>>,
       <<"Pink", <<255, 192, 203>>>>,
       <<"Brown", <<165, 42, 42>>>>,
       <<"Gold", <<255, 215, 0>>>> >>

\* the code points of each name: Python compares str values by code point
ord ==
    [ Black |-> << 66, 108, 97, 99, 107 >>,
      White |-> << 87, 104, 105, 116, 101 >>,
      Red |-> << 82, 101, 100 >>,
      Lime |-> << 76, 105, 109, 101 >>,
      Blue |-> << 66, 108, 117, 101 >>,
      Yellow |-> << 89, 101, 108, 108, 111, 119 >>,
      Cyan |-> << 67, 121, 97, 110 >>,
      Magenta |-> << 77, 97, 103, 101, 110, 116, 97 >>,
      Silver |-> << 83, 105, 108, 118, 101, 114 >>,
      Gray |-> << 71, 114, 97, 121 >>,
      Maroon |-> << 77, 97, 114, 111, 111, 110 >>,
      Olive |-> << 79, 108, 105, 118, 101 >>,
      Green |-> << 71, 114, 101, 101, 110 >>,
      Purple |-> << 80, 117, 114, 112, 108, 101 >>,
      Teal |-> << 84, 101, 97, 108 >>,
      Navy |-> << 78, 97, 118, 121 >>,
      Orange |-> << 79, 114, 97, 110, 103, 101 >>,
      Pink |-> << 80, 105, 110, 107 >>,
      Brown |-> << 66, 114, 111, 119, 110 >>,
      Gold |-> << 71, 111, 108, 100 >> ]

-----------------------------------------------------------------------------
(* Inputs *)

\* pixel colours that are not palette colours: two-way ties for the minimum
\* (Teal/Navy, Silver/Gray), an eight-way tie, and an off-palette colour
Probes ==
    << <<0, 64, 128>>, <<160, 160, 160>>, <<64, 64, 64>>, <<250, 10, 10>> >>

\* every colour an uploaded image may hold
Samples == [i \in 1..Len(ColorListLiteral) |-> ColorListLiteral[i][2]] \o Probes

\* uploaded images: a w x h colour chart whose pixel (x, y) is the sample
\* numbered shift + x + y*w (cyclically); with a chart of Stride pixels or
\* more every sample is a pixel of some image
Images ==
    [w : 1..MaxW, h : 1..MaxH,
     shift : {s \in 0..(Len(Samples) - 1) : s % Stride = 0}]

\* entries of the synthetic palettes: one colour under two names, one name
\* with two colours
Pool ==
    { <<"Teal", <<0, 128, 128>>>>,
      <<"Navy", <<0, 128, 128>>>>,
      <<"Navy", <<0, 0, 128>>>> }

RECURSIVE SeqsUpTo(_, _)
\* the lists of at most n different elements of S
SeqsUpTo(S, n) ==
    IF n = 0 THEN {<<>>}
    ELSE LET shorter == SeqsUpTo(S, n - 1)
         IN  shorter \cup
             {Append(se[1], se[2]) :
                 se \in {p \in shorter \X S :
                            \A i \in 1..Len(p[1]) : p[1][i] # p[2]}}

\* the contents COLOR_LIST may be given: the literal of the source, and every
\* list of at most MaxPal different pool entries (the empty list included)
Palettes == {ColorListLiteral} \cup SeqsUpTo(Pool, MaxPal)

-----------------------------------------------------------------------------
(* Python values *)

RECURSIVE SeqLess(_, _)
\* lexicographic order of two tuples (or strings as code points)
SeqLess(a, b) ==
    IF b = <<>> THEN FALSE
    ELSE IF a = <<>> THEN TRUE
    ELSE IF a[1] # b[1] THEN a[1] < b[1]
    ELSE SeqLess(Tail(a), Tail(b))

StrLess(a, b) == SeqLess(ord[a], ord[b])

\* the order of the tuples (dist, nm, (cr, cg, cb)) that dists.sort() uses
TupleLess(a, b) ==
    IF a[1] # b[1] THEN a[1] < b[1]
    ELSE IF a[2] # b[2] THEN StrLess(a[2], b[2])
    ELSE SeqLess(a[3], b[3])

\* floor of the square root of n, 0 <= n <= 3 * 255^2
Isqrt(n) == CHOOSE r \in 0..442 : r * r <= n /\ (r + 1) * (r + 1) > n

\* one more decimal digit of a square root: pr = <<root so far, remainder>>
SqrtDigit(pr) ==
    LET c == pr[2] * 100
        x == CHOOSE d \in 0..9 :
                 /\ (20 * pr[1] + d) * d <= c
                 /\ (d = 9 \/ (20 * pr[1] + d + 1) * (d + 1) > c)
    IN  <<10 * pr[1] + x, c - (20 * pr[1] + x) * x>>

\* math.sqrt: the root in thousandths, rounded down.  On 0 .. 3 * 255^2 the
\* roots of consecutive integers differ by more than 0.001, so like the
\* double math.sqrt returns this is strictly increasing: two roots are equal
\* or ordered exactly when the doubles are.  math.sqrt(inf) is inf.
sqrt(n) ==
    IF n = Inf THEN Inf
    ELSE LET r == Isqrt(n)
         IN  SqrtDigit(SqrtDigit(SqrtDigit(<<r, n - r * r>>)))[1]

Min(a, b) == IF a < b THEN a ELSE b

-----------------------------------------------------------------------------
(* nearest_color_name *)

\* the squared distance with the green channel of the target used twice
Dist2Typo(t, c) ==
    (t[1] - c[1]) * (t[1] - c[1]) + (t[2] - c[2]) * (t[2] - c[2])
        + (t[2] - c[3]) * (t[2] - c[3])

\* (tr - r)**2 + (tg - g)**2 + (tb - b)**2
Dist2(t, c) ==
    (t[1] - c[1]) * (t[1] - c[1]) + (t[2] - c[2]) * (t[2] - c[2])
        + (t[3] - c[3]) * (t[3] - c[3])

RECURSIVE ScanFlipped(_, _, _, _)
\* Scan with the comparison turned round (dist > best_dist)
ScanFlipped(target_rgb, P, i, best) ==
    IF i > Len(P) THEN best
    ELSE LET dist == Dist2(target_rgb, P[i][2])
         IN  ScanFlipped(target_rgb, P, i + 1,
                         IF dist > best[2] THEN <<P[i][1], dist>> ELSE best)

RECURSIVE ScanLastWins(_, _, _, _)
\* Scan that also replaces the best on a tie (dist <= best_dist)
ScanLastWins(target_rgb, P, i, best) ==
    IF i > Len(P) THEN best
    ELSE LET dist == Dist2(target_rgb, P[i][2])
         IN  ScanLastWins(target_rgb, P, i + 1,
                          IF dist <= best[2] THEN <<P[i][1], dist>> ELSE best)

RECURSIVE Scan(_, _, _, _)
\* the for loop: entries i..Len(P) still to visit, best = <<best_name, best_dist>>
Scan(target_rgb, P, i, best) ==
    IF i > Len(P) THEN best
    ELSE LET dist == Dist2(target_rgb, P[i][2])
         IN  Scan(target_rgb, P, i + 1,
                  IF dist < best[2] THEN <<P[i][1], dist>> ELSE best)

\* nearest_color_name returning best_dist itself, the root forgotten
nearest_squared(target_rgb, P) == Scan(target_rgb, P, 1, <<None, Inf>>)

\* returns <<best_name, math.sqrt(best_dist)>>
nearest_color_name(target_rgb, P) ==
    LET best == Scan(target_rgb, P, 1, <<None, Inf>>)
    IN  <<best[1], sqrt(best[2])>>

-----------------------------------------------------------------------------
(* the top-5 ranking *)

\* dists after the loop that appends one tuple per entry
Dists(rgb, P) ==
    [i \in 1..Len(P) |-> <<sqrt(Dist2(rgb, P[i][2])), P[i][1], P[i][2]>>]

RECURSIVE Insert(_, _)
\* t placed behind every element of the sorted s that is not greater than it
Insert(s, t) ==
    IF s = <<>> THEN <<t>>
    ELSE IF TupleLess(t, s[1]) THEN <<t>> \o s
    ELSE <<s[1]>> \o Insert(Tail(s), t)

\* the list left as the loop built it, dists.sort() forgotten
Unsorted(s, n) == SubSeq(s, 1, n)

RECURSIVE Sorted(_, _)
\* list.sort(): stable, ascending in the order of the tuples; the first n
\* elements of s sorted
Sorted(s, n) ==
    IF n = 0 THEN <<>> ELSE Insert(Sorted(s, n - 1), s[n])

\* dists[:k]
Slice(s, k) == SubSeq(s, 1, Min(k, Len(s)))

\* dists.sort() followed by dists[:5]
Top5(rgb, P) ==
    LET dists == Dists(rgb, P)
    IN  Slice(Sorted(dists, Len(dists)), TopN)

-----------------------------------------------------------------------------
(* the script *)

\* image.getpixel((x, y)) of a colour chart
getpixel(img, x, y) ==
    Samples[((img.shift + x + y * img.w) % Len(Samples)) + 1]

InImage(img, x, y) == x \in 0..(img.w - 1) /\ y \in 0..(img.h - 1)

\* a rendered page: kind says which branch of the script produced it
Page(kind, rgb, name, distance, top5, warning) ==
    [kind |-> kind, rgb |-> rgb, name |-> name, distance |-> distance,
     top5 |-> top5, warning |-> warning]

Blank(kind, warning) == Page(kind, <<>>, None, 0, <<>>, warning)

\* the handler ranking COLOR_LIST itself, in place, instead of a list of its own
DetectSortsInPlace(P, img, xy, click) ==
    IF ~InImage(img, xy[1], xy[2])
    THEN [page |-> Blank("exception", FALSE), COLOR_LIST |-> P]
    ELSE LET px == getpixel(img, xy[1], xy[2])
             nd == nearest_color_name(px, P)
             ranked == Sorted(Dists(px, P), Len(P))
         IN  [page |-> Page("detected", px, nd[1], nd[2], Slice(ranked, TopN), ~click),
              COLOR_LIST |-> [i \in 1..Len(P) |-> <<ranked[i][2], ranked[i][3]>>]]

\* the else branch of the handler, for coordinates xy of image img
Detect(P, img, xy, click) ==
    IF ~InImage(img, xy[1], xy[2])
    THEN \* getpixel raises IndexError: the run ends there
         [page |-> Blank("exception", FALSE), COLOR_LIST |-> P]
    ELSE LET px == getpixel(img, xy[1], xy[2])
             nd == nearest_color_name(px, P)
         IN  [page |-> Page("detected", px, nd[1], nd[2], Top5(px, P), ~click),
              COLOR_LIST |-> P]

\* x and y as the script has them before the button: both None (<<>>) in
\* click mode until the component reports a click, the number inputs otherwise
XY(click, c, m) == IF click THEN c ELSE m

\* the script without "if st.button(...)": the handler runs in every rerun
RunScriptNoButton(P, file, click, c, m, pressed) ==
    IF file = <<>>
    THEN [page |-> Blank("info", FALSE), COLOR_LIST |-> P]
    ELSE LET xy == XY(click, c, m)
         IN  IF xy = <<>>
             THEN [page |-> Blank("error", ~click), COLOR_LIST |-> P]
             ELSE Detect(P, file[1], xy, click)

\* one run of the script: what it renders and what it leaves in COLOR_LIST.
\* file, c and m are the widget values, pressed is st.button's result.
RunScript(P, file, click, c, m, pressed) ==
    IF file = <<>>
    THEN \* st.info; st.stop()
         [page |-> Blank("info", FALSE), COLOR_LIST |-> P]
    ELSE LET xy == XY(click, c, m)
         IN  IF ~pressed
             THEN [page |-> Blank("idle", ~click), COLOR_LIST |-> P]
             ELSE IF xy = <<>>
             THEN [page |-> Blank("error", ~click), COLOR_LIST |-> P]
             ELSE Detect(P, file[1], xy, click)

-----------------------------------------------------------------------------
(* Interactions *)

\* the run that an interaction triggers, with the widget values it leaves
Rerun(file, c, m, pressed) ==
    LET r == RunScript(COLOR_LIST, file, USE_CLICK, c, m, pressed)
    IN  /\ uploaded_file' = file
        /\ coords' = c
        /\ manual' = m
        /\ button' = pressed
        /\ page' = r.page
        /\ COLOR_LIST' = r.COLOR_LIST
        /\ requests' = IF r.page.kind = "detected"
                       THEN Min(requests + 1, MaxRequests)
                       ELSE requests
        /\ UNCHANGED USE_CLICK

\* value=img_width//2, value=img_height//2
Default(img) == <<img.w \div 2, img.h \div 2>>

\* A file is chosen in the sidebar while there is none: every widget below
\* the upload guard is created anew.
Upload ==
    /\ uploaded_file = <<>>
    /\ \E img \in Images :
           Rerun(<<img>>, <<>>, IF USE_CLICK THEN <<>> ELSE Default(img), FALSE)

\* Another file is chosen in place of the present one.  The click component
\* keeps its value or is reset; a number_input shows its default or, when
\* still in range, the value it had.  What survives depends on the size of
\* the new image alone, so the new image is the same chart in another size
\* (other charts are reached through RemoveFile and Upload).
Replace ==
    /\ uploaded_file # <<>>
    /\ \E img \in Images :
           \E c \in (IF USE_CLICK THEN {coords, <<>>} ELSE {<<>>}) :
               \E m \in (IF USE_CLICK THEN {<<>>}
                         ELSE {Default(img)} \cup
                              {v \in {manual} : InImage(img, v[1], v[2])}) :
                   /\ img.shift = uploaded_file[1].shift
                   /\ img # uploaded_file[1]
                   /\ Rerun(<<img>>, c, m, FALSE)

\* The file is removed: the script stops before it creates any other widget,
\* and Streamlit drops the values of widgets a run did not create.
RemoveFile ==
    /\ uploaded_file # <<>>
    /\ Rerun(<<>>, <<>>, <<>>, FALSE)

\* A click on the image (click mode)
Click ==
    /\ USE_CLICK
    /\ uploaded_file # <<>>
    /\ \E x \in 0..(uploaded_file[1].w - 1), y \in 0..(uploaded_file[1].h - 1) :
           Rerun(uploaded_file, <<x, y>>, manual, FALSE)

\* A new value of the X number_input (manual mode), within min_value..max_value
SetX ==
    /\ ~USE_CLICK
    /\ uploaded_file # <<>>
    /\ \E x \in 0..(uploaded_file[1].w - 1) :
           /\ x # manual[1]
           /\ Rerun(uploaded_file, coords, <<x, manual[2]>>, FALSE)

\* A new value of the Y number_input (manual mode)
SetY ==
    /\ ~USE_CLICK
    /\ uploaded_file # <<>>
    /\ \E y \in 0..(uploaded_file[1].h - 1) :
           /\ y # manual[2]
           /\ Rerun(uploaded_file, coords, <<manual[1], y>>, FALSE)

\* The "Detect color" button, which exists once an image is uploaded
PressDetect ==
    /\ uploaded_file # <<>>
    /\ Rerun(uploaded_file, coords, manual, TRUE)

-----------------------------------------------------------------------------
(* Specifications *)

\* the state after the first run of the script, with nothing uploaded
Start(P) ==
    /\ COLOR_LIST = P
    /\ USE_CLICK \in BOOLEAN
    /\ uploaded_file = <<>>
    /\ coords = <<>>
    /\ manual = <<>>
    /\ button = FALSE
    /\ requests = 0
    /\ page = RunScript(P, <<>>, USE_CLICK, <<>>, <<>>, FALSE).page

Init == Start(ColorListLiteral)

\* the same script over every palette of Palettes
InitPal == \E P \in Palettes : Start(P)

Next ==
    \/ Upload
    \/ Replace
    \/ RemoveFile
    \/ Click
    \/ SetX
    \/ SetY
    \/ PressDetect

Spec == Init /\ [][Next]_vars

SpecPal == InitPal /\ [][Next]_vars

-----------------------------------------------------------------------------
(* Properties *)

\* the last run called the matcher and rendered a detected colour
Detected == page.kind = "detected"

\* the rooted distance from the detected colour to entry i of COLOR_LIST
EntryDist(i) == sqrt(Dist2(page.rgb, COLOR_LIST[i][2]))

\* the entries of COLOR_LIST at minimum squared distance from the detected colour
Closest ==
    {i \in 1..Len(COLOR_LIST) :
        \A j \in 1..Len(COLOR_LIST) :
            Dist2(page.rgb, COLOR_LIST[i][2]) <= Dist2(page.rgb, COLOR_LIST[j][2])}

\* the first position of COLOR_LIST holding the entry of a ranked tuple
Pos(t) == CHOOSE i \in 1..Len(COLOR_LIST) :
              /\ COLOR_LIST[i] = <<t[2], t[3]>>
              /\ \A j \in 1..(i - 1) : COLOR_LIST[j] # <<t[2], t[3]>>

\* C1: over a non-empty palette the distance nearest_color_name reports is at
\* most the distance from the query to every entry, and it is the distance of
\* an entry carrying the returned name.
C1_NearestIsMinimum ==
    (Detected /\ COLOR_LIST # <<>>) =>
        /\ \A i \in 1..Len(COLOR_LIST) : page.distance <= EntryDist(i)
        /\ \E i \in 1..Len(COLOR_LIST) :
               COLOR_LIST[i][1] = page.name /\ EntryDist(i) = page.distance

\* C1 witness: the query (250, 10, 10) against the table of the source is
\* matched to Red at distance 15.000
C1_Witness ==
    /\ Detected
    /\ COLOR_LIST = ColorListLiteral
    /\ page.rgb = <<250, 10, 10>>
    /\ page.name = "Red"
    /\ page.distance = 15000

\* C2: when several entries are at the minimum distance, the name returned is
\* that of the one earliest in the palette.
C2_FirstOfTiesWins ==
    (Detected /\ COLOR_LIST # <<>>) =>
        \E i \in Closest :
            /\ \A j \in Closest : i <= j
            /\ page.name = COLOR_LIST[i][1]

\* C2 witness: two entries with different names tie for a minimum that is not
\* an exact match, and the earlier one's name is returned
C2_Witness ==
    /\ Detected
    /\ page.distance > 0
    /\ \E i \in Closest, j \in Closest :
           /\ i < j
           /\ COLOR_LIST[i][1] # COLOR_LIST[j][1]
           /\ page.name = COLOR_LIST[i][1]

\* C3 (as claimed): the first entry of the top-5 list is the entry that
\* nearest_color_name returns, ties for the minimum included.
C3_TopOneIsNearest ==
    Detected => (page.top5 # <<>> /\ page.top5[1][2] = page.name)

\* C4 (as claimed): ranked entries at exactly equal distance keep their
\* palette order.
C4_TiesKeepPaletteOrder ==
    Detected =>
        \A j \in 1..Len(page.top5), k \in 1..Len(page.top5) :
            (j < k /\ page.top5[j][1] = page.top5[k][1])
                => Pos(page.top5[j]) <= Pos(page.top5[k])

\* C5: the ranked list is non-decreasing in distance, has min(5, |palette|)
\* elements, each a palette entry with its distance (none more often than the
\* palette holds it), and every entry strictly closer than its last element
\* is in it.
C5_TopKClosest ==
    Detected =>
        LET t == page.top5
            n == Len(page.top5)
            P == COLOR_LIST
        IN  /\ n = IF TopN < Len(P) THEN TopN ELSE Len(P)
            /\ \A j \in 1..(n - 1) : t[j][1] <= t[j + 1][1]
            /\ \A j \in 1..n :
                   /\ \E i \in 1..Len(P) : t[j] = <<EntryDist(i), P[i][1], P[i][2]>>
                   /\ Cardinality({k \in 1..n : t[k] = t[j]})
                          <= Cardinality({i \in 1..Len(P) : P[i] = <<t[j][2], t[j][3]>>})
            /\ n > 0 =>
                   Cardinality({i \in 1..Len(P) : EntryDist(i) < t[n][1]})
                       = Cardinality({j \in 1..n : t[j][1] < t[n][1]})

\* C5 witness: the table of the source is ranked, five entries are kept and
\* the fifth is strictly farther than the first
C5_Witness ==
    /\ Detected
    /\ Len(COLOR_LIST) > TopN
    /\ Len(page.top5) = TopN
    /\ page.top5[1][1] < page.top5[TopN][1]

\* C6: a query equal to the colour of a palette entry is matched at distance 0
\* to the first entry with that colour; and distance 0 is reported only when
\* the query is the colour of an entry with the returned name.
C6_SelfMatch ==
    (Detected /\ COLOR_LIST # <<>>) =>
        LET same == {i \in 1..Len(COLOR_LIST) : COLOR_LIST[i][2] = page.rgb}
        IN  /\ same # {} =>
                   /\ page.distance = 0
                   /\ \E i \in same :
                          (\A j \in same : i <= j) /\ page.name = COLOR_LIST[i][1]
            /\ page.distance = 0 =>
                   \E i \in same : page.name = COLOR_LIST[i][1]

\* C6 witness: the query is the colour of two entries with different names
\* and is matched at distance 0 to the earlier one
C6_Witness ==
    /\ Detected
    /\ page.distance = 0
    /\ \E i \in 1..Len(COLOR_LIST), j \in 1..Len(COLOR_LIST) :
           /\ i < j
           /\ COLOR_LIST[i][2] = page.rgb
           /\ COLOR_LIST[j][2] = page.rgb
           /\ COLOR_LIST[i][1] # COLOR_LIST[j][1]
           /\ page.name = COLOR_LIST[i][1]

C8_NoCarryOver ==
    /\ COLOR_LIST = ColorListLiteral
    /\ Detected =>
           /\ <<page.name, page.distance>>
                  = nearest_color_name(page.rgb, ColorListLiteral)
           /\ page.top5 = Top5(page.rgb, ColorListLiteral)

\* C8 witness: a request is served after an earlier request, on the table as
\* the source wrote it
C8_Witness ==
    /\ Detected
    /\ requests >= 2
    /\ COLOR_LIST = ColorListLiteral

\* C9: a detected colour is rendered only with an upload, a button press and
\* both coordinates; with no upload the script stops at the upload guard; a
\* press without coordinates renders the error and no name or ranking.
C9_DetectOnlyWhenReady ==
    /\ Detected =>
           /\ uploaded_file # <<>>
           /\ button
           /\ XY(USE_CLICK, coords, manual) # <<>>
    /\ uploaded_file = <<>> => page.kind = "info"
    /\ (uploaded_file # <<>> /\ button /\ XY(USE_CLICK, coords, manual) = <<>>) =>
           /\ page.kind = "error"
           /\ page.name = None
           /\ page.top5 = <<>>

\* C9 witness: the button is pressed in click mode before any click
C9_Witness ==
    /\ USE_CLICK
    /\ uploaded_file # <<>>
    /\ button
    /\ coords = <<>>
    /\ page.kind = "error"

\* C10: with the table of the source the ranked list holds exactly five
\* entries and its first distance is the distance nearest_color_name reports.
C10_SameMinimumFiveEntries ==
    Detected =>
        /\ Len(page.top5) = TopN
        /\ page.top5[1][1] = page.distance

\* C10 witness: the two computations name different entries and still agree
\* on the distance
C10_Witness ==
    /\ Detected
    /\ Len(page.top5) = TopN
    /\ page.top5[1][2] # page.name
    /\ page.top5[1][1] = page.distance
    /\ page.distance > 0

====
